---- MODULE Spec2Model ----
(***************************************************************************)
(* A model of the anglerfish demultiplexing core:                          *)
(*   parse_cs           (src/anglerfish/demux/demux.py, 18-45)             *)
(*   parse_paf_lines    (src/anglerfish/demux/demux.py, 78-147, and the    *)
(*                       legacy one of src/demux/demux.py, 84-119)         *)
(*   layout_matches     (src/anglerfish/demux/demux.py, 150-195)           *)
(*   cluster_matches    (src/anglerfish/demux/demux.py, 198-279, and the   *)
(*                       legacy one of src/demux/demux.py, 157-204)        *)
(*   write_demuxedfastq (src/anglerfish/demux/demux.py, 282-324)           *)
(* Strings are sequences of one-character strings.  Each function has its  *)
(* own specification (SpecCs, SpecPaf, SpecLayout, SpecCluster,            *)
(* SpecWrite): Init draws the arguments, the actions are the function's    *)
(* steps.  SpecCluster runs the canonical cluster_matches and then the     *)
(* legacy one on the same arguments; SpecSubset does so on two reads in    *)
(* the configuration the legacy function covers.  The variables of the     *)
(* functions that a specification does not run stay at their idle values.  *)
(***************************************************************************)
EXTENDS Integers, Sequences, FiniteSets, TLC

VARIABLES
    pc,                 \* position of the running function
    \* parse_cs
    cs_string, index_seq, umi_before, umi_after, cs_result,
    \* layout_matches
    i5_name, i7_name, paf_entries, todo,
    fragments, singletons, concats, unknowns,
    \* cluster_matches
    sample_adaptor, matches, max_distance, i7_reversed, i5_reversed,
    clu_todo, matched, matched_bed, unmatched_bed,
    \* cluster_matches of the legacy module (src/demux/demux.py)
    legacy_todo, legacy_matched_bed, legacy_unmatched,
    \* write_demuxedfastq
    beds, fastq_in, fq_next, fastq_out,
    \* parse_paf_lines
    paf_lines, min_qual, complex_identifier, paf_legacy,
    paf_next, entries, paf_read, paf_exc

csVars == <<cs_string, index_seq, umi_before, umi_after, cs_result>>
layVars == <<i5_name, i7_name, paf_entries, todo,
             fragments, singletons, concats, unknowns>>
cluVars == <<sample_adaptor, matches, max_distance, i7_reversed, i5_reversed,
             clu_todo, matched, matched_bed, unmatched_bed,
             legacy_todo, legacy_matched_bed, legacy_unmatched>>
wrVars == <<beds, fastq_in, fq_next, fastq_out>>
pafVars == <<paf_lines, min_qual, complex_identifier, paf_legacy,
             paf_next, entries, paf_read, paf_exc>>
vars == <<pc, csVars, layVars, cluVars, wrVars, pafVars>>

(***************************************************************************)
(* Values                                                                  *)
(***************************************************************************)

\* Python's None for an optional int (umi_before, umi_after).
None == -1

\* {}
EmptyDict == [r \in {} |-> <<>>]

\* The variables of a function that is not running.
CsIdle ==
    /\ cs_string = <<>>
    /\ index_seq = <<>>
    /\ umi_before = None
    /\ umi_after = None
    /\ cs_result = <<>>

LayIdle ==
    /\ i5_name = ""
    /\ i7_name = ""
    /\ paf_entries = EmptyDict
    /\ todo = <<>>
    /\ fragments = EmptyDict
    /\ singletons = EmptyDict
    /\ concats = EmptyDict
    /\ unknowns = EmptyDict

CluIdle ==
    /\ sample_adaptor = <<>>
    /\ matches = EmptyDict
    /\ max_distance = 0
    /\ i7_reversed = FALSE
    /\ i5_reversed = FALSE
    /\ clu_todo = <<>>
    /\ matched = EmptyDict
    /\ matched_bed = <<>>
    /\ unmatched_bed = <<>>
    /\ legacy_todo = <<>>
    /\ legacy_matched_bed = <<>>
    /\ legacy_unmatched = EmptyDict

WrIdle ==
    /\ beds = EmptyDict
    /\ fastq_in = <<>>
    /\ fq_next = 1
    /\ fastq_out = <<>>

\* A local name that no assignment has bound yet.
Unbound == <<"unbound">>

PafIdle ==
    /\ paf_lines = <<>>
    /\ min_qual = 0
    /\ complex_identifier = FALSE
    /\ paf_legacy = FALSE
    /\ paf_next = 1
    /\ entries = EmptyDict
    /\ paf_read = Unbound
    /\ paf_exc = ""

\* The character class [atcg] of the pattern.
Bases == {"a", "t", "c", "g"}

\* str.lower() on one character.
Lower(ch) ==
    CASE ch = "A" -> "a"
      [] ch = "T" -> "t"
      [] ch = "C" -> "c"
      [] ch = "G" -> "g"
      [] ch = "N" -> "n"
      [] OTHER -> ch

\* str.lower()
LowerSeq(s) == [i \in 1..Len(s) |-> Lower(s[i])]

RECURSIVE JoinAll(_)
JoinAll(ss) == IF ss = <<>> THEN <<>> ELSE Head(ss) \o JoinAll(Tail(ss))

\* The sequences over S of length at most n.
SeqsUpTo(S, n) == UNION { [1..k -> S] : k \in 0..n }

Min2(a, b) == IF a <= b THEN a ELSE b
Max2(a, b) == IF a >= b THEN a ELSE b

\* Levenshtein.distance(a, b): insertions, deletions and substitutions cost 1.
RECURSIVE LevPrefix(_, _, _, _)
LevPrefix(a, b, i, j) ==
    IF i = 0 THEN j
    ELSE IF j = 0 THEN i
    ELSE Min2(Min2(LevPrefix(a, b, i - 1, j) + 1, LevPrefix(a, b, i, j - 1) + 1),
              LevPrefix(a, b, i - 1, j - 1) + (IF a[i] = b[j] THEN 0 ELSE 1))

lev_distance(a, b) == LevPrefix(a, b, Len(a), Len(b))

(***************************************************************************)
(* parse_cs                                                                *)
(***************************************************************************)

\* The pattern \*n([atcg]) matches at position i of s.
MatchAt(s, i) ==
    /\ i + 2 <= Len(s)
    /\ s[i] = "*"
    /\ s[i + 1] = "n"
    /\ s[i + 2] \in Bases

\* re.findall: the groups of the non-overlapping matches, scanning from the left.
RECURSIVE FindAllFrom(_, _)
FindAllFrom(s, i) ==
    IF i > Len(s) THEN <<>>
    ELSE IF MatchAt(s, i) THEN <<s[i + 2]>> \o FindAllFrom(s, i + 3)
    ELSE FindAllFrom(s, i + 1)

\* "".join(re.findall(n_subbed_pattern, cs_string))
bases_spanning_mask(cs) == FindAllFrom(cs, 1)

\* s[n:] for n >= 0
DropFirst(s, n) == IF n >= Len(s) THEN <<>> ELSE SubSeq(s, n + 1, Len(s))

\* s[:-n] for n > 0
DropLast(s, n) == IF n >= Len(s) THEN <<>> ELSE SubSeq(s, 1, Len(s) - n)

\* A mutant of TrimUmi: both UMIs are trimmed when both are given.
TrimUmi_Both(b, ub, ua) ==
    LET b1 == IF ub # None /\ ub > 0 THEN DropFirst(b, ub) ELSE b
    IN  IF ua # None /\ ua > 0 THEN DropLast(b1, ua) ELSE b1

\* The if / elif / else that trims away a UMI.
TrimUmi(b, ub, ua) ==
    IF ub # None /\ ub > 0 THEN DropFirst(b, ub)
    ELSE IF ua # None /\ ua > 0 THEN DropLast(b, ua)
    ELSE b

\* parse_cs(cs_string, index_seq, umi_before, umi_after): <<span, distance>>
parse_cs(cs, idx, ub, ua) ==
    LET bases_spanning_index_mask == TrimUmi(bases_spanning_mask(cs), ub, ua)
    IN  <<bases_spanning_index_mask,
          lev_distance(LowerSeq(idx), bases_spanning_index_mask)>>

(***************************************************************************)
(* Dicts and lists                                                         *)
(***************************************************************************)

\* d[k] = v
Put(d, k, v) == [x \in (DOMAIN d) \cup {k} |-> IF x = k THEN v ELSE d[x]]

\* e in lst: membership by value.
InList(e, lst) == \E i \in 1..Len(lst) : lst[i] = e

\* The list with e inserted behind the last element whose rstart is <= e's.
RECURSIVE InsertByRstart(_, _)
InsertByRstart(e, lst) ==
    IF lst = <<>> THEN <<e>>
    ELSE IF e.rstart < Head(lst).rstart THEN <<e>> \o lst
    ELSE <<Head(lst)>> \o InsertByRstart(e, Tail(lst))

RECURSIVE SortFrom(_, _)
SortFrom(lst, acc) ==
    IF lst = <<>> THEN acc
    ELSE SortFrom(Tail(lst), InsertByRstart(Head(lst), acc))

\* A mutant of SortByRstart: the list is stored as it was collected.
SortByRstart_Unsorted(lst) == lst

\* sorted(lst, key=lambda l: l["rstart"]): ascending and stable.
SortByRstart(lst) == SortFrom(lst, <<>>)

(***************************************************************************)
(* layout_matches                                                          *)
(***************************************************************************)

\* The condition of the scan on entry_list[k], entry_list[k + 1]; "and" binds
\* tighter than "or".
PairQualifies(entry_i, entry_j, i5n, i7n) ==
    \/ /\ entry_i.adapter # entry_j.adapter
       /\ entry_i.adapter = i5n /\ entry_j.adapter = i7n
    \/ (entry_j.adapter = i5n /\ entry_i.adapter = i7n)

\* A mutant of Collect: the pair is always added whole.
Collect_AlwaysExtend(sorted_entries, entry_i, entry_j) ==
    sorted_entries \o <<entry_i, entry_j>>

\* What a qualifying pair adds to sorted_entries.
Collect(sorted_entries, entry_i, entry_j) ==
    IF InList(entry_i, sorted_entries)
    THEN Append(sorted_entries, entry_j)
    ELSE sorted_entries \o <<entry_i, entry_j>>

\* for k in range(len(entry_list) - 1): ... from k on (k counts from 1 here).
RECURSIVE ScanFrom(_, _, _, _, _)
ScanFrom(entry_list, k, sorted_entries, i5n, i7n) ==
    IF k > Len(entry_list) - 1 THEN sorted_entries
    ELSE ScanFrom(entry_list, k + 1,
                  IF PairQualifies(entry_list[k], entry_list[k + 1], i5n, i7n)
                  THEN Collect(sorted_entries, entry_list[k], entry_list[k + 1])
                  ELSE sorted_entries,
                  i5n, i7n)

\* sorted_entries after the scan of one read's entry list.
Scan(entry_list, i5n, i7n) == ScanFrom(entry_list, 1, <<>>, i5n, i7n)

\* The branches of the if / elif / elif / else that stores a read.
IsSingleton(entry_list, sorted_entries) == Len(entry_list) = 1

IsFragment(entry_list, sorted_entries) ==
    ~IsSingleton(entry_list, sorted_entries) /\ Len(sorted_entries) = 2

IsConcat(entry_list, sorted_entries) ==
    /\ ~IsSingleton(entry_list, sorted_entries)
    /\ ~IsFragment(entry_list, sorted_entries)
    /\ Len(sorted_entries) > 2

\* A mutant of IsUnknown: the last branch is an "if not sorted_entries" of
\* its own, not the else of the chain.
IsUnknown_OwnIf(entry_list, sorted_entries) == Len(sorted_entries) = 0

IsUnknown(entry_list, sorted_entries) ==
    /\ ~IsSingleton(entry_list, sorted_entries)
    /\ ~IsFragment(entry_list, sorted_entries)
    /\ ~IsConcat(entry_list, sorted_entries)

(***************************************************************************)
(* Inputs of layout_matches                                                *)
(***************************************************************************)

MaxEntries == 4

\* The read ids, in the order the dict holds them.
ReadOrder == <<"r1", "r2">>
Reads == { ReadOrder[i] : i \in 1..Len(ReadOrder) }

\* The two targets layout_matches is called with, and a target of another
\* adaptor that the same alignment file holds.
TargetNames == {"truseq_i5", "truseq_i7"}
OtherName == "nextera_i7"
Positions == {0, 30, 80}

\* An entry of parse_paf_lines, cut down to the fields layout_matches reads;
\* two entries are equal when they agree on these.  An entry on the other
\* adaptor never takes part in a qualifying pair, one position is enough.
LayoutEntries ==
    [adapter : TargetNames, rstart : Positions]
        \cup { [adapter |-> OtherName, rstart |-> 30] }

\* The dict that gives the first cut entries of s to r1 and the rest to r2.
MkPaf(s, cut) ==
    LET l == [r \in Reads |->
                 IF r = "r1" THEN SubSeq(s, 1, cut) ELSE SubSeq(s, cut + 1, Len(s))]
    IN  [r \in { x \in Reads : l[x] # <<>> } |-> l[r]]

PafInputs ==
    { MkPaf(s, cut) : <<s, cut>> \in
        { <<s, cut>> \in SeqsUpTo(LayoutEntries, MaxEntries) \X (0..MaxEntries) :
            cut <= Len(s) } }

\* The keys of d in dict order.
RECURSIVE KeysFrom(_, _)
KeysFrom(d, i) ==
    IF i > Len(ReadOrder) THEN <<>>
    ELSE IF ReadOrder[i] \in DOMAIN d THEN <<ReadOrder[i]>> \o KeysFrom(d, i + 1)
    ELSE KeysFrom(d, i + 1)

Keys(d) == KeysFrom(d, 1)

InitLayout ==
    /\ CsIdle
    /\ CluIdle
    /\ WrIdle
    /\ PafIdle
    /\ pc = "layout_matches"
    /\ i5_name = "truseq_i5"
    /\ i7_name = "truseq_i7"
    /\ paf_entries \in PafInputs
    /\ todo = Keys(paf_entries)
    /\ fragments = EmptyDict
    /\ singletons = EmptyDict
    /\ concats = EmptyDict
    /\ unknowns = EmptyDict

\* One turn of "for read, entry_list in paf_entries.items()".
LayoutRead ==
    /\ pc = "layout_matches"
    /\ todo # <<>>
    /\ LET read == Head(todo)
           entry_list == paf_entries[read]
           sorted_entries == Scan(entry_list, i5_name, i7_name)
       IN  /\ singletons' = IF IsSingleton(entry_list, sorted_entries)
                            THEN Put(singletons, read, entry_list) ELSE singletons
           /\ fragments' = IF IsFragment(entry_list, sorted_entries)
                           THEN Put(fragments, read, SortByRstart(sorted_entries))
                           ELSE fragments
           /\ concats' = IF IsConcat(entry_list, sorted_entries)
                         THEN Put(concats, read, SortByRstart(sorted_entries))
                         ELSE concats
           /\ unknowns' = IF IsUnknown(entry_list, sorted_entries)
                          THEN Put(unknowns, read, entry_list) ELSE unknowns
    /\ todo' = Tail(todo)
    /\ UNCHANGED <<pc, i5_name, i7_name, paf_entries>>
    /\ UNCHANGED <<csVars, cluVars, wrVars, pafVars>>

\* return (fragments, singletons, concats, unknowns)
LayoutReturn ==
    /\ pc = "layout_matches"
    /\ todo = <<>>
    /\ pc' = "done"
    /\ UNCHANGED <<i5_name, i7_name, paf_entries, todo,
                   fragments, singletons, concats, unknowns>>
    /\ UNCHANGED <<csVars, cluVars, wrVars, pafVars>>

NextLayout == LayoutRead \/ LayoutReturn

SpecLayout == InitLayout /\ [][NextLayout]_vars

(***************************************************************************)
(* C1, C6 - C9: layout_matches                                             *)
(***************************************************************************)

\* The reads the loop has stored.
Stored == (DOMAIN paf_entries) \ { todo[i] : i \in 1..Len(todo) }

\* The returned dicts that hold read r.
BucketsOf(r) ==
    { b \in {"fragments", "singletons", "concats", "unknowns"} :
        \/ b = "fragments" /\ r \in DOMAIN fragments
        \/ b = "singletons" /\ r \in DOMAIN singletons
        \/ b = "concats" /\ r \in DOMAIN concats
        \/ b = "unknowns" /\ r \in DOMAIN unknowns }

\* C1: the four dicts partition the read ids: every read id of the input
\* that the loop has stored is a key of exactly one of them, and no dict has
\* a key that is not such a read id.
C1_Partition ==
    /\ \A r \in Stored : Cardinality(BucketsOf(r)) = 1
    /\ (DOMAIN fragments) \cup (DOMAIN singletons) \cup (DOMAIN concats)
         \cup (DOMAIN unknowns) = Stored
    /\ (pc = "done" => Stored = DOMAIN paf_entries)

\* Two reads were laid out, one a singleton and one a concat.
C1_Witness ==
    /\ pc = "done"
    /\ DOMAIN paf_entries = {"r1", "r2"}
    /\ DOMAIN singletons = {"r1"}
    /\ DOMAIN concats = {"r2"}

\* C6: a read is in fragments only when its entry group has exactly two
\* entries, one on the i5 target and one on the i7 target.
C6_FragmentGroupHasTwo ==
    \A r \in DOMAIN fragments :
        /\ Len(paf_entries[r]) = 2
        /\ { paf_entries[r][i].adapter : i \in 1..Len(paf_entries[r]) }
             = {i5_name, i7_name}

\* C7: every list in fragments has exactly two entries, one on the i5 target
\* and one on the i7 target, which stand next to each other in the input,
\* and the one with the smaller rstart comes first.
C7_FragmentSorted ==
    \A r \in DOMAIN fragments :
        LET f  == fragments[r]
            el == paf_entries[r]
        IN  /\ Len(f) = 2
            /\ {f[1].adapter, f[2].adapter} = {i5_name, i7_name}
            /\ f[1].rstart <= f[2].rstart
            /\ \E k \in 1..(Len(el) - 1) :
                  \/ f = <<el[k], el[k + 1]>>
                  \/ f = <<el[k + 1], el[k]>>

\* The input lists the i7 entry (at 80) before the i5 entry (at 0); the
\* fragment has the i5 entry first.
C7_Witness ==
    /\ "r1" \in DOMAIN fragments
    /\ paf_entries["r1"] = << [adapter |-> "truseq_i7", rstart |-> 80],
                              [adapter |-> "truseq_i5", rstart |-> 0] >>
    /\ fragments["r1"] = << [adapter |-> "truseq_i5", rstart |-> 0],
                            [adapter |-> "truseq_i7", rstart |-> 80] >>

\* C8: every list in concats has more than two entries, and in its returned
\* order no two consecutive entries have the same adaptor name.
C8_ConcatAlternates ==
    \A r \in DOMAIN concats :
        LET c == concats[r]
        IN  /\ Len(c) > 2
            /\ \A i \in 1..(Len(c) - 1) : c[i].adapter # c[i + 1].adapter

\* el has n >= 3 pairwise distinct entries that alternate between the i5 and
\* the i7 target.
AlternatingDistinct(el) ==
    /\ Len(el) >= 3
    /\ \A i, j \in 1..Len(el) : i # j => el[i] # el[j]
    /\ \A k \in 1..(Len(el) - 1) :
          {el[k].adapter, el[k + 1].adapter} = {i5_name, i7_name}

\* C9: an entry list of n >= 3 pairwise distinct entries that alternate
\* between the i5 and the i7 target is stored in concats, with each of the n
\* entries exactly once, in ascending order of rstart.
C9_AlternatingIsConcat ==
    \A r \in Stored :
        AlternatingDistinct(paf_entries[r]) =>
            /\ BucketsOf(r) = {"concats"}
            /\ Len(concats[r]) = Len(paf_entries[r])
            /\ \A i \in 1..Len(paf_entries[r]) :
                  Cardinality({ j \in 1..Len(concats[r]) :
                                  concats[r][j] = paf_entries[r][i] }) = 1
            /\ \A j \in 1..(Len(concats[r]) - 1) :
                  concats[r][j].rstart <= concats[r][j + 1].rstart

\* i7, i5, i7 at 80, 30, 0 come back as a concat in position order.
C9_Witness ==
    /\ "r1" \in DOMAIN concats
    /\ paf_entries["r1"] = << [adapter |-> "truseq_i7", rstart |-> 80],
                              [adapter |-> "truseq_i5", rstart |-> 30],
                              [adapter |-> "truseq_i7", rstart |-> 0] >>
    /\ concats["r1"] = << [adapter |-> "truseq_i7", rstart |-> 0],
                          [adapter |-> "truseq_i5", rstart |-> 30],
                          [adapter |-> "truseq_i7", rstart |-> 80] >>

(***************************************************************************)
(* cluster_matches                                                         *)
(***************************************************************************)

\* Python's None for an optional index sequence (adaptor.i5.index_seq).
NoneSeq == <<"None">>

\* name[-2:] on the adaptor names of the model.
Suffix2(name) ==
    CASE name = "truseq_i5" -> "i5"
      [] name = "truseq_i7" -> "i7"
      [] name = "nextera_i7" -> "i7"
      [] OTHER -> ""

\* The complement of one base, as Bio.Seq gives it.
Complement(ch) ==
    CASE ch = "A" -> "T"
      [] ch = "T" -> "A"
      [] ch = "C" -> "G"
      [] ch = "G" -> "C"
      [] ch = "a" -> "t"
      [] ch = "t" -> "a"
      [] ch = "c" -> "g"
      [] ch = "g" -> "c"
      [] OTHER -> ch

\* str(Seq(s).reverse_complement())
reverse_complement(s) == [i \in 1..Len(s) |-> Complement(s[Len(s) + 1 - i])]

\* The sequence of characters as one string.
RECURSIVE Str(_)
Str(s) == IF s = <<>> THEN "" ELSE Head(s) \o Str(Tail(s))

\* parse_cs on one side of the read, for an adaptor end that has an index.
SideParse(end, entry, reversed) ==
    parse_cs(entry.cs,
             IF reversed THEN reverse_complement(end.index_seq) ELSE end.index_seq,
             end.len_umi_before_index,
             end.len_umi_after_index)

\* One turn of "for _, adaptor, _ in sample_adaptor": the distance is
\* appended, fi5 and fi7 are overwritten only when that end has an index.
DistStep(st, adaptor, i5, i7, i5rev, i7rev) ==
    LET has5 == adaptor.i5.index_seq # NoneSeq
        has7 == adaptor.i7.index_seq # NoneSeq
        r5 == SideParse(adaptor.i5, i5, i5rev)
        r7 == SideParse(adaptor.i7, i7, i7rev)
        d1 == IF has5 THEN r5[2] ELSE 0
        d2 == IF has7 THEN r7[2] ELSE 0
    IN  [dists |-> Append(st.dists, d1 + d2),
         fi5 |-> IF has5 THEN r5[1] ELSE st.fi5,
         fi7 |-> IF has7 THEN r7[1] ELSE st.fi7]

RECURSIVE DistLoopFrom(_, _, _, _, _, _, _)
DistLoopFrom(sa, k, st, i5, i7, i5rev, i7rev) ==
    IF k > Len(sa) THEN st
    ELSE DistLoopFrom(sa, k + 1, DistStep(st, sa[k].adaptor, i5, i7, i5rev, i7rev),
                      i5, i7, i5rev, i7rev)

\* dists, fi5 and fi7 after the loop over the candidates.
DistLoop(sa, i5, i7, i5rev, i7rev) ==
    DistLoopFrom(sa, 1, [dists |-> <<>>, fi5 |-> <<>>, fi7 |-> <<>>],
                 i5, i7, i5rev, i7rev)

\* min(range(len(dists)), key=dists.__getitem__): the first smallest.
IndexMin(dists) ==
    CHOOSE i \in 1..Len(dists) :
        /\ \A j \in 1..Len(dists) : dists[i] <= dists[j]
        /\ \A j \in 1..(i - 1) : dists[j] > dists[i]

\* A mutant of IsTie: the test for equidistant samples is left out.
IsTie_Never(dists) == FALSE

\* len([i for i, j in enumerate(dists) if j == dists[index_min]]) > 1
IsTie(dists) ==
    Cardinality({ i \in 1..Len(dists) : dists[i] = dists[IndexMin(dists)] }) > 1

\* len(index_seq or "")
LenOrEmpty(seq) == IF seq = NoneSeq THEN 0 ELSE Len(seq)

\* "+".join([i for i in [fi7, fi5] if not i == ""])
JoinPlus(fi7, fi5) ==
    IF fi7 # <<>> /\ fi5 # <<>> THEN fi7 \o <<"+">> \o fi5
    ELSE IF fi7 # <<>> THEN fi7
    ELSE fi5

\* The minimum insert size.
MinInsert == 10

\* A mutant of StartInsert: the insert starts where the first adaptor starts.
StartInsert_Rstart(i5, i7) == Min2(i5.rstart, i7.rstart)

\* start_insert = min(i5["rend"], i7["rend"])
StartInsert(i5, i7) == Min2(i5.rend, i7.rend)

\* A mutant of EndInsert: the insert ends where the last adaptor ends.
EndInsert_Rend(i5, i7) == Max2(i7.rend, i5.rend)

\* end_insert = max(i7["rstart"], i5["rstart"])
EndInsert(i5, i7) == Max2(i7.rstart, i5.rstart)

\* A mutant of OverThreshold: the threshold is exclusive.
OverThreshold_Exclusive(d, maxd) == d >= maxd

\* dists[index_min] > max_distance
OverThreshold(d, maxd) == d > maxd

\* The body of the loop over the reads once i5 and i7 are told apart: what is
\* appended, and to which list.
ClusterSides(read, i5, i7, sa, maxd, i7rev, i5rev) ==
    LET st == DistLoop(sa, i5, i7, i5rev, i7rev)
        dists == st.dists
        index_min == IndexMin(dists)
        adaptor == sa[Len(sa)].adaptor       \* left over from the loop
        start_insert == StartInsert(i5, i7)
        end_insert == EndInsert(i5, i7)
    IN  IF IsTie(dists) THEN [kind |-> "skip", bed |-> <<>>]
        ELSE IF end_insert - start_insert < MinInsert THEN [kind |-> "skip", bed |-> <<>>]
        ELSE IF OverThreshold(dists[index_min], maxd)
        THEN IF Len(st.fi7) + Len(st.fi5)
                  = LenOrEmpty(adaptor.i7.index_seq) + LenOrEmpty(adaptor.i5.index_seq)
             THEN [kind |-> "unmatched",
                   bed |-> <<read, start_insert, end_insert,
                             Str(JoinPlus(st.fi7, st.fi5)), "999", ".">>]
             ELSE [kind |-> "skip", bed |-> <<>>]
        ELSE [kind |-> "matched",
              bed |-> <<read, start_insert, end_insert, sa[index_min].name, "999", ".">>]

\* The body of the loop over the reads.
ClusterOne(read, alignments, sa, maxd, i7rev, i5rev) ==
    IF Suffix2(alignments[1].adapter) = "i5" /\ Suffix2(alignments[2].adapter) = "i7"
    THEN ClusterSides(read, alignments[1], alignments[2], sa, maxd, i7rev, i5rev)
    ELSE IF Suffix2(alignments[2].adapter) = "i5" /\ Suffix2(alignments[1].adapter) = "i7"
    THEN ClusterSides(read, alignments[2], alignments[1], sa, maxd, i7rev, i5rev)
    ELSE [kind |-> "skip", bed |-> <<>>]

(***************************************************************************)
(* cluster_matches and parse_cs of the legacy module                       *)
(***************************************************************************)

\* The legacy parse_cs without index.lower().
legacy_parse_cs_NoLower(cs, idx) == lev_distance(idx, bases_spanning_mask(cs))

\* parse_cs(cs_string, index, max_distance) of the legacy module: no UMI is
\* trimmed.
legacy_parse_cs(cs, idx) == lev_distance(LowerSeq(idx), bases_spanning_mask(cs))

\* d1 + d2 for one (sample, adaptor): an i5 index that is None makes
\* index.lower() raise AttributeError, which sets d1 = 0.
LegacyDist(adaptor, i5, i7) ==
    (IF adaptor.i5.index_seq = NoneSeq THEN 0
     ELSE legacy_parse_cs(i5.cs, adaptor.i5.index_seq))
        + legacy_parse_cs(i7.cs, adaptor.i7.index_seq)

\* The body of the legacy loop over the reads once i5 and i7 are told apart.
LegacySides(read, i5, i7, sa, maxd) ==
    LET dists == [k \in 1..Len(sa) |-> LegacyDist(sa[k].adaptor, i5, i7)]
        index_min == IndexMin(dists)
        start_insert == Min2(i5.rend, i7.rend)
        end_insert == Max2(i7.rstart, i5.rstart)
    IN  IF IsTie(dists) THEN [kind |-> "unmatched", bed |-> <<>>]
        ELSE IF dists[index_min] > maxd THEN [kind |-> "unmatched", bed |-> <<>>]
        ELSE IF end_insert - start_insert < MinInsert
        THEN [kind |-> "unmatched", bed |-> <<>>]
        ELSE [kind |-> "matched",
              bed |-> <<read, start_insert, end_insert, sa[index_min].name, "999", ".">>]

\* The body of the legacy loop over the reads.
LegacyOne(read, alignments, sa, maxd) ==
    IF Suffix2(alignments[1].adapter) = "i5" /\ Suffix2(alignments[2].adapter) = "i7"
    THEN LegacySides(read, alignments[1], alignments[2], sa, maxd)
    ELSE IF Suffix2(alignments[2].adapter) = "i5" /\ Suffix2(alignments[1].adapter) = "i7"
    THEN LegacySides(read, alignments[2], alignments[1], sa, maxd)
    ELSE [kind |-> "skip", bed |-> <<>>]

(***************************************************************************)
(* Inputs of cluster_matches                                               *)
(***************************************************************************)

MaxSamples == 2
MaxDist == 1

AdaptorEnd(seq, before, after) ==
    [index_seq |-> seq, len_umi_before_index |-> before, len_umi_after_index |-> after]

\* The adaptors of the sample sheet: a single-index one with the i7 index A,
\* and dual-index ones (i5 index A) with the i7 index AT and with the i7
\* index T behind a UMI of one base.
Adaptors ==
    { [i5 |-> AdaptorEnd(NoneSeq, 0, 0), i7 |-> AdaptorEnd(<<"A">>, 0, 0)],
      [i5 |-> AdaptorEnd(<<"A">>, 0, 0), i7 |-> AdaptorEnd(<<"A", "T">>, 0, 0)],
      [i5 |-> AdaptorEnd(<<"A">>, 0, 0), i7 |-> AdaptorEnd(<<"T">>, 1, 0)] }

\* The sample names, by row of the sample sheet.
SampleNames == <<"s1", "s2", "s3", "s4">>

\* The sample sheets of 1..MaxSamples rows.
SampleLists ==
    UNION { { [k \in 1..n |-> [name |-> SampleNames[k], adaptor |-> f[k]]] :
                f \in [1..n -> Adaptors] } : n \in 1..MaxSamples }

\* The adaptor names of alignments[0] and alignments[1] of a fragment, and
\* those of a pair that is no i5/i7 pair.
Orientations == { <<"truseq_i5", "truseq_i7">>, <<"truseq_i7", "truseq_i5">> }
NoPair == <<"truseq_i5", "truseq_i5">>

\* <<rstart, rend>> of alignments[0] and alignments[1]: inserts of 10, 9, 5
\* and 25 bases, and one alignment inside the other.
PosLayouts == { << <<0, 20>>, <<30, 50>> >>, << <<0, 20>>, <<29, 50>> >>,
                << <<0, 20>>, <<25, 45>> >>, << <<5, 15>>, <<40, 60>> >>,
                << <<0, 50>>, <<10, 20>> >> }

I5Cs == { <<"*", "n", "a">>, <<":">> }
I7Cs == { <<"*", "n", "a">>, <<"*", "n", "a", "*", "n", "t">>, <<"*", "n", "t">> }

CsFor(name) == IF Suffix2(name) = "i5" THEN I5Cs ELSE I7Cs

\* The length of the read, which every entry of the read carries.
ReadLen == 60

EntryOn(name, iv, cs) ==
    [adapter |-> name, rlen |-> ReadLen, rstart |-> iv[1], rend |-> iv[2], cs |-> cs]

\* The two-entry lists cluster_matches is given for a read.
FragmentInputs ==
    UNION { { <<EntryOn(o[1], l[1], c1), EntryOn(o[2], l[2], c2)>> :
                <<c1, c2>> \in CsFor(o[1]) \X CsFor(o[2]) } :
            <<o, l>> \in Orientations \X PosLayouts }
      \cup { <<EntryOn(NoPair[1], l[1], <<"*", "n", "a">>),
               EntryOn(NoPair[2], l[2], <<"*", "n", "a">>)>> : l \in PosLayouts }

InitCluster ==
    /\ CsIdle
    /\ LayIdle
    /\ WrIdle
    /\ PafIdle
    /\ pc = "cluster_matches"
    /\ sample_adaptor \in SampleLists
    /\ \E a \in FragmentInputs : matches = [r \in {"r1"} |-> a]
    /\ max_distance \in 0..MaxDist
    /\ i7_reversed \in BOOLEAN
    /\ i5_reversed \in BOOLEAN
    /\ clu_todo = Keys(matches)
    /\ matched = EmptyDict
    /\ matched_bed = <<>>
    /\ unmatched_bed = <<>>
    /\ legacy_todo = Keys(matches)
    /\ legacy_matched_bed = <<>>
    /\ legacy_unmatched = EmptyDict

\* One turn of "for read, alignments in matches.items()".
ClusterRead ==
    /\ pc = "cluster_matches"
    /\ clu_todo # <<>>
    /\ LET read == Head(clu_todo)
           alignments == matches[read]
           out == ClusterOne(read, alignments, sample_adaptor, max_distance,
                             i7_reversed, i5_reversed)
       IN  /\ matched' = IF out.kind = "matched"
                         THEN Put(matched, read, alignments) ELSE matched
           /\ matched_bed' = IF out.kind = "matched"
                             THEN Append(matched_bed, out.bed) ELSE matched_bed
           /\ unmatched_bed' = IF out.kind = "unmatched"
                               THEN Append(unmatched_bed, out.bed) ELSE unmatched_bed
    /\ clu_todo' = Tail(clu_todo)
    /\ UNCHANGED <<pc, sample_adaptor, matches, max_distance, i7_reversed, i5_reversed>>
    /\ UNCHANGED <<legacy_todo, legacy_matched_bed, legacy_unmatched>>
    /\ UNCHANGED <<csVars, layVars, wrVars, pafVars>>

\* return unmatched_bed, matched_bed; the legacy function is then called on
\* the same sample sheet, reads and max_distance.
ClusterReturn ==
    /\ pc = "cluster_matches"
    /\ clu_todo = <<>>
    /\ pc' = "legacy_cluster_matches"
    /\ UNCHANGED <<csVars, layVars, cluVars, wrVars, pafVars>>

\* One turn of the legacy "for read, alignments in matches.items()".
LegacyClusterRead ==
    /\ pc = "legacy_cluster_matches"
    /\ legacy_todo # <<>>
    /\ LET read == Head(legacy_todo)
           alignments == matches[read]
           out == LegacyOne(read, alignments, sample_adaptor, max_distance)
       IN  /\ legacy_matched_bed' = IF out.kind = "matched"
                                    THEN Append(legacy_matched_bed, out.bed)
                                    ELSE legacy_matched_bed
           /\ legacy_unmatched' = IF out.kind = "unmatched"
                                  THEN Put(legacy_unmatched, read, alignments)
                                  ELSE legacy_unmatched
    /\ legacy_todo' = Tail(legacy_todo)
    /\ UNCHANGED <<pc, sample_adaptor, matches, max_distance, i7_reversed, i5_reversed,
                   clu_todo, matched, matched_bed, unmatched_bed>>
    /\ UNCHANGED <<csVars, layVars, wrVars, pafVars>>

\* return matched_bed
LegacyClusterReturn ==
    /\ pc = "legacy_cluster_matches"
    /\ legacy_todo = <<>>
    /\ pc' = "done"
    /\ UNCHANGED <<csVars, layVars, cluVars, wrVars, pafVars>>

NextCluster ==
    ClusterRead \/ ClusterReturn \/ LegacyClusterRead \/ LegacyClusterReturn

SpecCluster == InitCluster /\ [][NextCluster]_vars

(***************************************************************************)
(* cluster_matches in the configuration the legacy module covers           *)
(***************************************************************************)

\* Dual-index adaptors without UMIs.
DualAdaptors ==
    { [i5 |-> AdaptorEnd(<<"A">>, 0, 0), i7 |-> AdaptorEnd(<<"A", "T">>, 0, 0)],
      [i5 |-> AdaptorEnd(<<"A">>, 0, 0), i7 |-> AdaptorEnd(<<"T">>, 0, 0)],
      [i5 |-> AdaptorEnd(<<"C">>, 0, 0), i7 |-> AdaptorEnd(<<"A">>, 0, 0)] }

DualLists ==
    UNION { { [k \in 1..n |-> [name |-> SampleNames[k], adaptor |-> f[k]]] :
                f \in [1..n -> DualAdaptors] } : n \in 1..MaxSamples }

\* The two-entry lists of a second read: i5 then i7, i7 then i5, and a pair
\* that is no i5/i7 pair.
SecondFragments ==
    { <<EntryOn("truseq_i5", <<0, 20>>, <<"*", "n", "a">>),
        EntryOn("truseq_i7", <<30, 50>>, <<"*", "n", "t">>)>>,
      <<EntryOn("truseq_i7", <<5, 15>>, <<"*", "n", "a">>),
        EntryOn("truseq_i5", <<40, 60>>, <<":">>)>>,
      <<EntryOn(NoPair[1], <<0, 20>>, <<"*", "n", "a">>),
        EntryOn(NoPair[2], <<30, 50>>, <<"*", "n", "a">>)>> }

\* Both functions are called with two reads, dual-index candidates, and the
\* canonical one with its defaults i7_reversed = i5_reversed = False.
InitSubset ==
    /\ CsIdle
    /\ LayIdle
    /\ WrIdle
    /\ PafIdle
    /\ pc = "cluster_matches"
    /\ sample_adaptor \in DualLists
    /\ \E a \in FragmentInputs, b \in SecondFragments :
          matches = [r \in {"r1", "r2"} |-> IF r = "r1" THEN a ELSE b]
    /\ max_distance \in 0..MaxDist
    /\ i7_reversed = FALSE
    /\ i5_reversed = FALSE
    /\ clu_todo = Keys(matches)
    /\ matched = EmptyDict
    /\ matched_bed = <<>>
    /\ unmatched_bed = <<>>
    /\ legacy_todo = Keys(matches)
    /\ legacy_matched_bed = <<>>
    /\ legacy_unmatched = EmptyDict

SpecSubset == InitSubset /\ [][NextCluster]_vars

(***************************************************************************)
(* C2 - C5: cluster_matches                                                *)
(***************************************************************************)

\* The reads the loop of cluster_matches has dealt with.
Clustered == (DOMAIN matches) \ { clu_todo[i] : i \in 1..Len(clu_todo) }

\* The two entries are one "...i5" and one "...i7".
ValidPair(a) == {Suffix2(a[1].adapter), Suffix2(a[2].adapter)} = {"i5", "i7"}

SideI5(a) == IF Suffix2(a[1].adapter) = "i5" THEN a[1] ELSE a[2]
SideI7(a) == IF Suffix2(a[1].adapter) = "i7" THEN a[1] ELSE a[2]

\* The distance of one end's expected index to the span read on that side;
\* 0 for an end without an index.
EndDist(end, entry, reversed) ==
    IF end.index_seq = NoneSeq THEN 0
    ELSE parse_cs(entry.cs,
                  IF reversed THEN reverse_complement(end.index_seq)
                  ELSE end.index_seq,
                  end.len_umi_before_index, end.len_umi_after_index)[2]

\* The combined (i5 + i7) distance of candidate c to the read.
CandDist(c, a) ==
    EndDist(c.adaptor.i5, SideI5(a), i5_reversed)
        + EndDist(c.adaptor.i7, SideI7(a), i7_reversed)

\* The combined distances of the candidates, by row.
RECURSIVE CandDistsFrom(_, _, _)
CandDistsFrom(sa, a, k) ==
    IF k > Len(sa) THEN <<>>
    ELSE <<CandDist(sa[k], a)>> \o CandDistsFrom(sa, a, k + 1)

CandDists(sa, a) == CandDistsFrom(sa, a, 1)

\* The rows of d that no other row is as near as, or nearer than.
UniqueNearestIn(d) ==
    { k \in 1..Len(d) : \A j \in 1..Len(d) : j # k => d[j] > d[k] }

\* Two or more rows of d attain its minimum.
TieIn(d) ==
    \E k, j \in 1..Len(d) :
        /\ k # j
        /\ d[k] = d[j]
        /\ \A m \in 1..Len(d) : d[k] <= d[m]

\* The candidates (by row) no other candidate is as near as, or nearer than.
UniqueNearest(sa, a) == UniqueNearestIn(CandDists(sa, a))

\* Two or more candidates attain the minimum combined distance.
TieAtMin(sa, a) == TieIn(CandDists(sa, a))

\* max(i5.rstart, i7.rstart) - min(i5.rend, i7.rend)
Span(a) == Max2(a[1].rstart, a[2].rstart) - Min2(a[1].rend, a[2].rend)

\* The records of a bed list for read r.
RecordsOf(bed, r) == { i \in 1..Len(bed) : bed[i][1] = r }

\* C2: a read has a record in matched_bed exactly when its entries are one
\* i5 and one i7 by suffix, one candidate alone attains the minimum combined
\* distance, that minimum is <= max_distance and the insert span is >= 10;
\* the record names that candidate's sample, and a read has at most one.
C2_MatchedIff ==
    \A r \in Clustered :
        LET a == matches[r]
            recs == RecordsOf(matched_bed, r)
        IN  /\ Cardinality(recs) <= 1
            /\ (recs # {}) <=>
                   /\ ValidPair(a)
                   /\ \E k \in UniqueNearest(sample_adaptor, a) :
                         CandDist(sample_adaptor[k], a) <= max_distance
                   /\ Span(a) >= 10
            /\ \A i \in recs : \A k \in UniqueNearest(sample_adaptor, a) :
                  matched_bed[i][4] = sample_adaptor[k].name

\* The second of two candidates is the only nearest one, at the threshold,
\* with the i7 adaptor first on the read: the read is matched to it.
C2_Witness ==
    /\ "r1" \in Clustered
    /\ Len(sample_adaptor) = 2
    /\ Suffix2(matches["r1"][1].adapter) = "i7"
    /\ UniqueNearest(sample_adaptor, matches["r1"]) = {2}
    /\ CandDist(sample_adaptor[2], matches["r1"]) = 1
    /\ max_distance = 1
    /\ Len(matched_bed) = 1
    /\ matched_bed[1][4] = "s2"

\* The reads the loop of the legacy cluster_matches has dealt with.
LegacyClustered == (DOMAIN matches) \ { legacy_todo[i] : i \in 1..Len(legacy_todo) }

\* The legacy combined distances of the candidates, by row.
RECURSIVE LegacyDistsFrom(_, _, _)
LegacyDistsFrom(sa, a, k) ==
    IF k > Len(sa) THEN <<>>
    ELSE <<LegacyDist(sa[k].adaptor, SideI5(a), SideI7(a))>>
             \o LegacyDistsFrom(sa, a, k + 1)

\* Two or more candidates attain the minimum of the legacy combined distance.
LegacyTieAtMin(sa, a) == TieIn(LegacyDistsFrom(sa, a, 1))

\* C3: when two or more candidates tie at the minimum combined distance for
\* a read, neither matched_bed nor unmatched_bed has a record for the read,
\* and neither has the matched_bed of the legacy cluster_matches.
C3_TieNoRecord ==
    /\ \A r \in Clustered :
          ValidPair(matches[r]) /\ TieAtMin(sample_adaptor, matches[r]) =>
              /\ RecordsOf(matched_bed, r) = {}
              /\ RecordsOf(unmatched_bed, r) = {}
              /\ r \notin DOMAIN matched
    /\ \A r \in LegacyClustered :
          ValidPair(matches[r]) /\ LegacyTieAtMin(sample_adaptor, matches[r]) =>
              RecordsOf(legacy_matched_bed, r) = {}

\* Two different candidates tie within the threshold on a read with a wide
\* enough insert, for both functions, and nothing was emitted.
C3_Witness ==
    /\ pc = "done"
    /\ ValidPair(matches["r1"])
    /\ Len(sample_adaptor) = 2
    /\ sample_adaptor[1].adaptor # sample_adaptor[2].adaptor
    /\ TieAtMin(sample_adaptor, matches["r1"])
    /\ LegacyTieAtMin(sample_adaptor, matches["r1"])
    /\ CandDist(sample_adaptor[1], matches["r1"]) = 1
    /\ max_distance = 1
    /\ Span(matches["r1"]) >= 10
    /\ matched_bed = <<>>
    /\ unmatched_bed = <<>>
    /\ legacy_matched_bed = <<>>

\* The record has the insert of read r's two entries.
InsertOf(rec) ==
    LET a == matches[rec[1]]
    IN  /\ rec[2] = Min2(a[1].rend, a[2].rend)
        /\ rec[3] = Max2(a[1].rstart, a[2].rstart)
        /\ rec[3] - rec[2] >= 10

\* C4: every record of matched_bed and of unmatched_bed has
\* start = min(i5.rend, i7.rend), end = max(i5.rstart, i7.rstart) and
\* end - start >= 10; a read whose span is below 10 has no record.
C4_InsertSpan ==
    /\ \A i \in 1..Len(matched_bed) : InsertOf(matched_bed[i])
    /\ \A i \in 1..Len(unmatched_bed) : InsertOf(unmatched_bed[i])
    /\ \A r \in Clustered :
          Span(matches[r]) < 10 =>
              RecordsOf(matched_bed, r) = {} /\ RecordsOf(unmatched_bed, r) = {}

\* A diagnostic record with an insert of exactly 10 bases was emitted.
C4_Witness ==
    /\ Len(unmatched_bed) = 1
    /\ unmatched_bed[1][2] = 20
    /\ unmatched_bed[1][3] = 30

\* The sample sheet with its rows in the order p.
PermuteSeq(sa, p) == [k \in 1..Len(sa) |-> sa[p[k]]]

\* What the loop has emitted for read r.
Emitted(r) ==
    IF RecordsOf(matched_bed, r) # {}
    THEN [kind |-> "matched", bed |-> matched_bed[CHOOSE i \in RecordsOf(matched_bed, r) : TRUE]]
    ELSE IF RecordsOf(unmatched_bed, r) # {}
    THEN [kind |-> "unmatched",
          bed |-> unmatched_bed[CHOOSE i \in RecordsOf(unmatched_bed, r) : TRUE]]
    ELSE [kind |-> "skip", bed |-> <<>>]

\* C5: the outcome for a read (the matched record and its sample, the
\* diagnostic record and its label, or no record) is the same for every
\* ordering of the candidate list.
C5_OrderIndependent ==
    \A r \in Clustered :
        \A p \in Permutations(1..Len(sample_adaptor)) :
            ClusterOne(r, matches[r], PermuteSeq(sample_adaptor, p), max_distance,
                       i7_reversed, i5_reversed) = Emitted(r)

(***************************************************************************)
(* Inputs of parse_cs                                                      *)
(***************************************************************************)

MaxChunks == 3
MaxUmi == 2

\* Pieces a cs string is put together from: two marker tokens and single
\* characters, so that broken tokens ("*n", "*nn", "n*a") arise as well.
CsChunks == { <<"*", "n", "a">>, <<"*", "n", "c">>, <<"*">>, <<"n">>, <<"a">>, <<":">> }

CsStrings == { JoinAll(ss) : ss \in SeqsUpTo(CsChunks, MaxChunks) }

IndexSeqs == { <<>>, <<"A">>, <<"c">>, <<"A", "C">>, <<"C", "A">>, <<"a", "C", "a">> }

UmiLens == {None} \cup (0..MaxUmi)

InitCs ==
    /\ LayIdle
    /\ CluIdle
    /\ WrIdle
    /\ PafIdle
    /\ pc = "parse_cs"
    /\ cs_string \in CsStrings
    /\ index_seq \in IndexSeqs
    /\ umi_before \in UmiLens
    /\ umi_after \in UmiLens
    /\ cs_result = <<>>

\* One call of parse_cs on the drawn arguments.
ParseCs ==
    /\ pc = "parse_cs"
    /\ cs_result' = parse_cs(cs_string, index_seq, umi_before, umi_after)
    /\ pc' = "done"
    /\ UNCHANGED <<cs_string, index_seq, umi_before, umi_after>>
    /\ UNCHANGED <<layVars, cluVars, wrVars, pafVars>>

NextCs == ParseCs

SpecCs == InitCs /\ [][NextCs]_vars

(***************************************************************************)
(* C10                                                                     *)
(***************************************************************************)

\* The positions of cs at which a marker token "*n<base>" stands.
MarkerPositions(cs) ==
    { i \in 1..Len(cs) : i + 2 <= Len(cs) /\ cs[i] = "*" /\ cs[i + 1] = "n"
                         /\ cs[i + 2] \in {"a", "c", "g", "t"} }

\* The observed bases of the marker tokens, in the order of their positions.
RECURSIVE BasesAt(_, _)
BasesAt(cs, P) ==
    IF P = {} THEN <<>>
    ELSE LET m == CHOOSE i \in P : \A j \in P : i <= j
         IN  <<cs[m + 2]>> \o BasesAt(cs, P \ {m})

\* The span the claim describes: the first umi_before bases dropped if
\* umi_before > 0, else the last umi_after bases if umi_after > 0.
ClaimedSpan(obs, ub, ua) ==
    LET k == Len(obs)
    IN  IF ub > 0 THEN [i \in 1..Max2(k - ub, 0) |-> obs[i + ub]]
        ELSE IF ua > 0 THEN [i \in 1..Max2(k - ua, 0) |-> obs[i]]
        ELSE obs

RECURSIVE SplitFrom(_, _, _, _)
SplitFrom(s, i, cur, acc) ==
    IF i > Len(s) THEN (IF cur = <<>> THEN acc ELSE Append(acc, cur))
    ELSE IF s[i] = " "
         THEN SplitFrom(s, i + 1, <<>>, IF cur = <<>> THEN acc ELSE Append(acc, cur))
         ELSE SplitFrom(s, i + 1, Append(cur, s[i]), acc)

Split(s) == SplitFrom(s, 1, <<>>, <<>>)

\* " ".join(new_title)
RECURSIVE JoinSpace(_)
JoinSpace(tokens) ==
    IF tokens = <<>> THEN <<>>
    ELSE IF Len(tokens) = 1 THEN tokens[1]
    ELSE tokens[1] \o <<" ">> \o JoinSpace(Tail(tokens))

\* s[a:b] for a, b >= 0.
Slice(s, a, b) ==
    LET lo == Min2(a, Len(s))
        hi == Min2(b, Len(s))
    IN  IF lo >= hi THEN <<>> ELSE SubSeq(s, lo + 1, hi)

\* new_title[0] += "_" + bed[3]
Retitle(new_title, bed) == [new_title EXCEPT ![1] = @ \o <<"_">> \o bed[4]]

\* for bed in beds[new_title[0]]: one output record per bed; new_title is
\* the same list object in every turn.
RECURSIVE BedLoop(_, _, _, _, _)
BedLoop(new_title, bedlist, seq, qual, outfqs) ==
    IF bedlist = <<>> THEN outfqs
    ELSE LET bed == Head(bedlist)
             nt == Retitle(new_title, bed)
         IN  BedLoop(nt, Tail(bedlist), seq, qual,
                     Append(outfqs, [title |-> JoinSpace(nt),
                                     seq |-> Slice(seq, bed[2], bed[3]),
                                     qual |-> Slice(qual, bed[2], bed[3])]))

\* The records written for one (title, seq, qual) of the input.
WriteOne(b, triple) ==
    LET new_title == Split(triple.title)
    IN  IF new_title[1] \notin DOMAIN b THEN <<>>
        ELSE BedLoop(new_title, b[new_title[1]], triple.seq, triple.qual, <<>>)

(***************************************************************************)
(* Inputs of write_demuxedfastq                                            *)
(***************************************************************************)

MaxFastq == 2
MaxBeds == 2

\* Titles with a first token: a bare id, an id with a description, with two
\* blanks between them, and ids of other reads.
Titles == { <<"r", "1">>, <<"r", "1", " ", "x">>, <<"r", "1", " ", " ", "x">>,
            <<"r", "2">>, <<"r", "3">> }

Triples == [title : Titles, seq : {<<"A", "C", "G", "T">>},
            qual : {<<"5", "6", "7", "8">>}]

WrSamples == { <<"s", "1">>, <<"s", "2">> }

\* [read, start, end, sample] of read r1; the second interval ends past the read.
BedsOfR1 == { <<<<"r", "1">>, iv[1], iv[2], sm>> :
                 iv \in { <<1, 3>>, <<2, 6>> }, sm \in WrSamples }

BedsOfR2 == << <<<<"r", "2">>, 0, 2, <<"s", "1">>>> >>

BedInputs ==
    {EmptyDict}
      \cup { [r \in {<<"r", "1">>} |-> l] : l \in SeqsUpTo(BedsOfR1, MaxBeds) \ {<<>>} }
      \cup { [r \in {<<"r", "1">>, <<"r", "2">>} |->
                 IF r = <<"r", "1">> THEN l ELSE BedsOfR2] :
             l \in SeqsUpTo(BedsOfR1, MaxBeds) \ {<<>>} }

InitWrite ==
    /\ CsIdle
    /\ LayIdle
    /\ CluIdle
    /\ PafIdle
    /\ pc = "write_demuxedfastq"
    /\ beds \in BedInputs
    /\ fastq_in \in SeqsUpTo(Triples, MaxFastq) \ {<<>>}
    /\ fq_next = 1
    /\ fastq_out = <<>>

\* One turn of "for title, seq, qual in FastqGeneralIterator(fi)", with the
\* oz.stdin.write that ends it.
WriteRead ==
    /\ pc = "write_demuxedfastq"
    /\ fq_next <= Len(fastq_in)
    /\ fastq_out' = fastq_out \o WriteOne(beds, fastq_in[fq_next])
    /\ fq_next' = fq_next + 1
    /\ UNCHANGED <<pc, beds, fastq_in>>
    /\ UNCHANGED <<csVars, layVars, cluVars, pafVars>>

\* return os.getpid()
WriteReturn ==
    /\ pc = "write_demuxedfastq"
    /\ fq_next > Len(fastq_in)
    /\ pc' = "done"
    /\ UNCHANGED <<csVars, layVars, cluVars, wrVars, pafVars>>

NextWrite == WriteRead \/ WriteReturn

SpecWrite == InitWrite /\ [][NextWrite]_vars

(***************************************************************************)
(* C11                                                                     *)
(***************************************************************************)

\* The record C11 expects for one bed of a read: the title with its first
\* token replaced by R_S, and the two slices.
ExpectedRecord(tokens, triple, bed) ==
    [title |-> JoinSpace(<<tokens[1] \o <<"_">> \o bed[4]>> \o Tail(tokens)),
     seq |-> Slice(triple.seq, bed[2], bed[3]),
     qual |-> Slice(triple.qual, bed[2], bed[3])]

\* The records C11 expects for one input triple, in the order of its beds.
ExpectedOf(b, triple) ==
    LET tokens == Split(triple.title)
    IN  IF tokens[1] \notin DOMAIN b THEN <<>>
        ELSE [k \in 1..Len(b[tokens[1]]) |->
                 ExpectedRecord(tokens, triple, b[tokens[1]][k])]

RECURSIVE ExpectedUpTo(_, _, _)
ExpectedUpTo(b, fq, n) ==
    IF n = 0 THEN <<>>
    ELSE ExpectedUpTo(b, fq, n - 1) \o ExpectedOf(b, fq[n])

\* C11: the output is, for each input triple read so far and in input order,
\* one record per bed of its read id, titled with the first token replaced by
\* exactly R_S and holding seq[start:end] and qual[start:end]; a read with m
\* beds gives m records, a read not in the index gives none.
C11_TitlePerRecord ==
    fastq_out = ExpectedUpTo(beds, fastq_in, fq_next - 1)

(***************************************************************************)
(* parse_paf_lines                                                         *)
(***************************************************************************)

Digits == {"0", "1", "2", "3", "4", "5", "6", "7", "8", "9"}

DigitVal(ch) ==
    CASE ch = "0" -> 0 [] ch = "1" -> 1 [] ch = "2" -> 2 [] ch = "3" -> 3
      [] ch = "4" -> 4 [] ch = "5" -> 5 [] ch = "6" -> 6 [] ch = "7" -> 7
      [] ch = "8" -> 8 [] ch = "9" -> 9

\* The token without its sign.
Unsigned(tok) ==
    IF tok # <<>> /\ tok[1] \in {"+", "-"} THEN Tail(tok) ELSE tok

\* int(tok) returns: an optional sign, then digits, single underscores
\* allowed between digits.  Otherwise int raises ValueError.
IsInt(tok) ==
    LET b == Unsigned(tok)
    IN  /\ b # <<>>
        /\ \A i \in 1..Len(b) : b[i] \in Digits \cup {"_"}
        /\ b[1] # "_"
        /\ b[Len(b)] # "_"
        /\ \A i \in 1..(Len(b) - 1) : ~(b[i] = "_" /\ b[i + 1] = "_")

RECURSIVE DecimalFrom(_, _, _)
DecimalFrom(b, i, acc) ==
    IF i > Len(b) THEN acc
    ELSE IF b[i] = "_" THEN DecimalFrom(b, i + 1, acc)
    ELSE DecimalFrom(b, i + 1, 10 * acc + DigitVal(b[i]))

\* int(tok) for a token that IsInt.
IntOf(tok) ==
    LET v == DecimalFrom(Unsigned(tok), 1, 0)
    IN  IF tok[1] = "-" THEN 0 - v ELSE v

\* adapter.split("_")[-1]
RECURSIVE LastPiece(_)
LastPiece(s) ==
    IF \A i \in 1..Len(s) : s[i] # "_" THEN s
    ELSE LastPiece(Tail(s))

\* The first statement of the try block that raises, for a line of n columns:
\* the canonical function reads paf_cols[0], paf_cols[5], int(paf_cols[1..3]),
\* paf_cols[4], paf_cols[-2], paf_cols[-1], int(paf_cols[11]) in this order.
TryCanonical(cols) ==
    LET n == Len(cols)
    IN  IF n = 0 THEN "IndexError"
        ELSE IF n < 6 THEN "IndexError"
        ELSE IF ~IsInt(cols[2]) \/ ~IsInt(cols[3]) \/ ~IsInt(cols[4]) THEN "ValueError"
        ELSE IF n < 12 THEN "IndexError"
        ELSE IF ~IsInt(cols[12]) THEN "ValueError"
        ELSE ""

\* The legacy function evaluates aln[5], int(aln[1..3]), aln[4], aln[-1],
\* int(aln[11]) for the entry and reads aln[0] last.
TryLegacy(cols) ==
    LET n == Len(cols)
    IN  IF n < 6 THEN "IndexError"
        ELSE IF ~IsInt(cols[2]) \/ ~IsInt(cols[3]) \/ ~IsInt(cols[4]) THEN "ValueError"
        ELSE IF n < 12 THEN "IndexError"
        ELSE IF ~IsInt(cols[12]) THEN "ValueError"
        ELSE ""

\* The value of the local "read" after the try block.
ReadAfter(cols, read, legacy) ==
    IF legacy
    THEN (IF TryLegacy(cols) = "" THEN cols[1] ELSE read)
    ELSE (IF Len(cols) = 0 THEN read ELSE cols[1])

\* The key of the entry.
KeyOf(cols, complex) ==
    IF complex
    THEN cols[1] \o <<"_">> \o LastPiece(cols[6]) \o <<"_">>
           \o (IF cols[5] = <<"+">> THEN <<"positive">> ELSE <<"negative">>)
    ELSE cols[1]

\* The entry compiled from a line whose try block has passed.
EntryOf(cols) ==
    [read |-> cols[1], adapter |-> cols[6], rlen |-> IntOf(cols[2]),
     rstart |-> IntOf(cols[3]), rend |-> IntOf(cols[4]), strand |-> cols[5],
     cg |-> cols[Len(cols) - 1], cs |-> cols[Len(cols)], q |-> IntOf(cols[12]),
     iseq |-> "None", sample |-> "None"]

LegacyEntryOf(cols) ==
    [adapter |-> cols[6], rlen |-> IntOf(cols[2]),
     rstart |-> IntOf(cols[3]), rend |-> IntOf(cols[4]), strand |-> cols[5],
     cs |-> cols[Len(cols)], q |-> IntOf(cols[12]),
     iseq |-> "None", sample |-> "None"]

\* entries[key].append(entry), or entries[key] = [entry]
AddEntry(d, k, e) ==
    IF k \in DOMAIN d THEN [d EXCEPT ![k] = Append(@, e)] ELSE Put(d, k, <<e>>)

\* One line of the file: the exception that leaves the call ("" for none),
\* the local read and the dict afterwards.
PafStep(cols, read, d, minq, complex, legacy) ==
    LET failed == IF legacy THEN TryLegacy(cols) ELSE TryCanonical(cols)
        rd == ReadAfter(cols, read, legacy)
    IN  IF failed = "ValueError"
        THEN [exc |-> "ValueError", read |-> rd, entries |-> d]
        ELSE IF failed = "IndexError"
        THEN [exc |-> IF rd = Unbound THEN "UnboundLocalError" ELSE "",
              read |-> rd, entries |-> d]
        ELSE IF IntOf(cols[12]) < minq
        THEN [exc |-> "", read |-> rd, entries |-> d]
        ELSE [exc |-> "", read |-> rd,
              entries |-> IF legacy
                          THEN AddEntry(d, cols[1], LegacyEntryOf(cols))
                          ELSE AddEntry(d, KeyOf(cols, complex), EntryOf(cols))]

(***************************************************************************)
(* Inputs of parse_paf_lines                                               *)
(***************************************************************************)

MaxLines == 3

\* paf_line.split() of a complete record: 12 columns, then the cg and cs tags.
PafCols(read, rstart, strand, adapter, q) ==
    <<read, <<"9", "0">>, rstart, <<"2", "0">>, strand, adapter,
      <<"5">>, <<"0">>, <<"2", "0">>, <<"2", "0">>, <<"2", "0">>, q,
      <<"M">>, <<":">>>>

Complete(q) == PafCols(<<"r", "1">>, <<"0">>, <<"+">>, <<"a", "_", "i", "5">>, q)

\* Complete records of r1 with q of 0, 1 and 2, one of r2 on the other
\* strand; a blank line; lines of 2, 6 and 11 columns; records with a
\* non-numeric rstart or q.
PafLineSet ==
    { Complete(<<"0">>), Complete(<<"1">>), Complete(<<"2">>),
      PafCols(<<"r", "2">>, <<"3">>, <<"-">>, <<"b", "_", "i", "7">>, <<"2">>),
      <<>>,
      <<<<"r", "1">>, <<"9", "0">>>>,
      SubSeq(Complete(<<"2">>), 1, 6),
      SubSeq(Complete(<<"2">>), 1, 11),
      PafCols(<<"r", "1">>, <<"x">>, <<"+">>, <<"a", "_", "i", "5">>, <<"2">>),
      PafCols(<<"r", "1">>, <<"0">>, <<"+">>, <<"a", "_", "i", "5">>, <<"*">>) }

MinQuals == {1, 2}

InitPaf ==
    /\ CsIdle
    /\ LayIdle
    /\ CluIdle
    /\ WrIdle
    /\ pc = "parse_paf_lines"
    /\ paf_lines \in SeqsUpTo(PafLineSet, MaxLines)
    /\ min_qual \in MinQuals
    /\ paf_legacy \in BOOLEAN
    /\ complex_identifier \in (IF paf_legacy THEN {FALSE} ELSE BOOLEAN)
    /\ paf_next = 1
    /\ entries = EmptyDict
    /\ paf_read = Unbound
    /\ paf_exc = ""

\* One turn of "for paf_line in paf" of the canonical function; an exception
\* that no handler catches leaves the call.
PafLine ==
    /\ pc = "parse_paf_lines"
    /\ ~paf_legacy
    /\ paf_next <= Len(paf_lines)
    /\ LET out == PafStep(paf_lines[paf_next], paf_read, entries,
                          min_qual, complex_identifier, FALSE)
       IN  /\ entries' = out.entries
           /\ paf_read' = out.read
           /\ paf_exc' = out.exc
           /\ pc' = IF out.exc = "" THEN pc ELSE "raised"
    /\ paf_next' = paf_next + 1
    /\ UNCHANGED <<paf_lines, min_qual, complex_identifier, paf_legacy>>
    /\ UNCHANGED <<csVars, layVars, cluVars, wrVars>>

\* One turn of "for paf_line in paf" of the legacy function.
LegacyPafLine ==
    /\ pc = "parse_paf_lines"
    /\ paf_legacy
    /\ paf_next <= Len(paf_lines)
    /\ LET out == PafStep(paf_lines[paf_next], paf_read, entries,
                          min_qual, FALSE, TRUE)
       IN  /\ entries' = out.entries
           /\ paf_read' = out.read
           /\ paf_exc' = out.exc
           /\ pc' = IF out.exc = "" THEN pc ELSE "raised"
    /\ paf_next' = paf_next + 1
    /\ UNCHANGED <<paf_lines, min_qual, complex_identifier, paf_legacy>>
    /\ UNCHANGED <<csVars, layVars, cluVars, wrVars>>

\* return entries
PafReturn ==
    /\ pc = "parse_paf_lines"
    /\ paf_next > Len(paf_lines)
    /\ pc' = "done"
    /\ UNCHANGED <<csVars, layVars, cluVars, wrVars, pafVars>>

NextPaf == PafLine \/ LegacyPafLine \/ PafReturn

SpecPaf == InitPaf /\ [][NextPaf]_vars

(***************************************************************************)
(* C12                                                                     *)
(***************************************************************************)

\* A record with all twelve columns and integers in the numeric ones.
WellFormed(cols) ==
    /\ Len(cols) >= 12
    /\ IsInt(cols[2]) /\ IsInt(cols[3]) /\ IsInt(cols[4]) /\ IsInt(cols[12])

\* The lines C12 keeps: well formed and of quality at least min_qual.
Kept(cols, minq) == WellFormed(cols) /\ IntOf(cols[12]) >= minq

\* The dict of the kept lines among the first n, entries in input order.
RECURSIVE ResultOfKept(_, _, _, _, _)
ResultOfKept(lines, n, minq, complex, legacy) ==
    IF n = 0 THEN EmptyDict
    ELSE LET d == ResultOfKept(lines, n - 1, minq, complex, legacy)
             cols == lines[n]
         IN  IF ~Kept(cols, minq) THEN d
             ELSE IF legacy THEN AddEntry(d, cols[1], LegacyEntryOf(cols))
             ELSE AddEntry(d, KeyOf(cols, complex), EntryOf(cols))

\* C12: whatever the lines are, no exception leaves parse_paf_lines, and the
\* dict built from the lines read so far is the one built from the well-formed
\* lines of quality at least min_qual among them.
C12_SkipsBadRecords ==
    /\ paf_exc = ""
    /\ pc # "raised"
    /\ entries = ResultOfKept(paf_lines, paf_next - 1, min_qual,
                              complex_identifier, paf_legacy)

(***************************************************************************)
(* C13                                                                     *)
(***************************************************************************)

\* Every candidate defines both indexes, no index has a UMI, and neither
\* index is reverse-complemented.
SubsetConfig ==
    /\ ~i5_reversed
    /\ ~i7_reversed
    /\ \A k \in 1..Len(sample_adaptor) :
          LET ad == sample_adaptor[k].adaptor
          IN  /\ ad.i5.index_seq # NoneSeq
              /\ ad.i7.index_seq # NoneSeq
              /\ ad.i5.len_umi_before_index = 0
              /\ ad.i5.len_umi_after_index = 0
              /\ ad.i7.len_umi_before_index = 0
              /\ ad.i7.len_umi_after_index = 0

\* The records of bed whose read is in S, in the order of bed.
RecordsIn(bed, S) == SelectSeq(bed, LAMBDA rec : rec[1] \in S)

\* C13: in the configuration of the legacy module (dual-index candidates, no
\* UMIs, no reverse complement) the matched_bed of the legacy cluster_matches
\* is, read by read, the matched_bed of the canonical one: same records, same
\* order.
C13_LegacySubset ==
    SubsetConfig =>
        legacy_matched_bed = RecordsIn(matched_bed, LegacyClustered)

\* Both reads were matched, by both functions, among two or more candidates.
C13_Witness ==
    /\ pc = "done"
    /\ SubsetConfig
    /\ Len(sample_adaptor) >= 2
    /\ Len(matched_bed) = 2
    /\ Len(legacy_matched_bed) = 2

(***************************************************************************)
(* C14                                                                     *)
(***************************************************************************)

\* The positions of entry_list that belong to a qualifying adjacent pair.
QualPositions(el, i5n, i7n) ==
    { p \in 1..Len(el) :
        \/ p < Len(el) /\ PairQualifies(el[p], el[p + 1], i5n, i7n)
        \/ p > 1 /\ PairQualifies(el[p - 1], el[p], i5n, i7n) }

\* How often the value e occurs in the list.
CountIn(e, lst) == Cardinality({ i \in 1..Len(lst) : lst[i] = e })

\* acc holds the entries at the positions P of el, each position once.
HoldsPositions(acc, el, P) ==
    /\ Len(acc) = Cardinality(P)
    /\ \A q \in 1..Len(el) :
          CountIn(el[q], acc) = Cardinality({ p \in P : el[p] = el[q] })

\* C14: for every read stored, the scan has collected the entries at the
\* positions that belong to a qualifying adjacent pair, each position once,
\* also when entries at different positions are equal; the accumulator never
\* has exactly one element, and a read of two or more entries is in unknowns
\* exactly when no adjacent pair qualifies.
C14_ScanByPosition ==
    \A r \in Stored :
        LET el == paf_entries[r]
            acc == Scan(el, i5_name, i7_name)
            P == QualPositions(el, i5_name, i7_name)
        IN  /\ HoldsPositions(acc, el, P)
            /\ Len(acc) # 1
            /\ Len(el) > 1 => (r \in DOMAIN unknowns <=> P = {})

(***************************************************************************)
(* C15                                                                     *)
(***************************************************************************)

\* 0 <= rstart <= rend <= rlen
WithinRead(e) == 0 <= e.rstart /\ e.rstart <= e.rend /\ e.rend <= e.rlen

\* [start, end) and the alignment of e have no base in common.
Apart(start, end, e) == e.rend <= start \/ end <= e.rstart

\* The record's interval lies between the two alignments of its read.
BetweenAdaptors(rec) ==
    LET a == matches[rec[1]]
        first == IF a[1].rstart <= a[2].rstart THEN a[1] ELSE a[2]
        other == IF a[1].rstart <= a[2].rstart THEN a[2] ELSE a[1]
    IN  WithinRead(a[1]) /\ WithinRead(a[2]) =>
            /\ rec[2] = first.rend
            /\ rec[3] = other.rstart
            /\ 0 <= rec[2] /\ rec[2] < rec[3] /\ rec[3] <= first.rlen
            /\ Apart(rec[2], rec[3], a[1])
            /\ Apart(rec[2], rec[3], a[2])

\* C15: every record of matched_bed and unmatched_bed, and of the legacy
\* matched_bed, made from two entries with 0 <= rstart <= rend <= rlen, starts
\* at the rend of the entry that lies first on the read, ends at the rstart of
\* the other, has 0 <= start < end <= rlen, and overlaps neither alignment.
C15_InsertBetweenAdaptors ==
    /\ \A i \in 1..Len(matched_bed) : BetweenAdaptors(matched_bed[i])
    /\ \A i \in 1..Len(unmatched_bed) : BetweenAdaptors(unmatched_bed[i])
    /\ \A i \in 1..Len(legacy_matched_bed) : BetweenAdaptors(legacy_matched_bed[i])

\* Both functions have made a record for a read whose i7 alignment is
\* alignments[0] and lies first on the read.
C15_Witness ==
    /\ pc = "done"
    /\ Len(matched_bed) = 1
    /\ Len(legacy_matched_bed) = 1
    /\ LET a == matches[matched_bed[1][1]]
       IN  /\ Suffix2(a[1].adapter) = "i7"
           /\ a[1].rstart < a[2].rstart
           /\ WithinRead(a[1]) /\ WithinRead(a[2])

====
